---- MODULE Spec2Model ----
(***************************************************************************)
(* Secret Santa server: the match generation and per-user sealing of       *)
(* GET /api/match/my-match (server/routes/match.js), the registration of   *)
(* POST /api/auth/signup (server/routes/auth.js), the cipher of            *)
(* server/utils/crypto.js, the schema of server/db/init.js, the admin      *)
(* routes of server/routes/admin.js and the limiter of routes/auth.js.     *)
(*                                                                         *)
(* One event with NumUsers participants.  Every request handler is an      *)
(* async function: it runs atomically between two awaits on the database,  *)
(* and requests interleave at those awaits.  Each action below is one such *)
(* segment of a handler, taken by one of NumSlots in-flight requests.      *)
(***************************************************************************)
EXTENDS Integers, Sequences, FiniteSets, TLC

\* ---------------------------------------------------------------- bounds
NumUsers == 3
NumSlots == 2
NumPasswords == 2
NumIVs == 2
MaxCalls == 2
NumPending == 1
MaxPlain == 2
NumAdmins == 2
NumLogins == 1
MaxRequests == 7

\* maxAttempts of generateRandomDerangement
maxAttempts == 100

\* max of authLimiter
max == 5

Users == 1..NumUsers
Admins == 1..NumAdmins
Slots == 1..NumSlots
Passwords == 1..NumPasswords
IVs == 1..NumIVs

\* SQL NULL in a column, the 'PENDING' placeholder of the three ciphertext
\* columns, and `undefined` for a SELECT that finds no row.
NULL == <<>>
PENDING == <<"PENDING">>
NoRow == [id |-> 0]
NoResponse == [status |-> 0]
\* datetime('now'): the clock is not modelled
Now == <<"now">>

VARIABLES
  users,      \* table users of the event: id -> row
  event,      \* the row of table events
  matches,    \* table matches: a set of rows
  req,        \* the in-flight requests: slot -> position and locals
  calls,      \* number of generateRandomDerangement calls made so far
  revealed,   \* the <<giver, match>> pairs that reveals have returned so far
  gen,        \* one call of generateRandomDerangement, statement by statement
  box,        \* one encryptMatch followed by one decryptMatch
  limiter     \* authLimiter: the requests of one client in the current window

vars == <<users, event, matches, req, calls, revealed, gen, box, limiter>>

\* INSERT INTO events (admin_id, name, max_spend, bonus_item, theme,
\* match_deadline, gift_deadline): the row of the event as created, with
\* the defaults of all_registered and matches_generated
NewEvent ==
  [ admin_id |-> 1, name |-> "Secret Santa 2025",
    max_spend |-> "50", bonus_item |-> "a disc", theme |-> "Know Your Buddy",
    match_deadline |-> "2025-12-15", gift_deadline |-> "2025-12-20",
    all_registered |-> FALSE, matches_generated |-> FALSE,
    status |-> "active" ]

\* ------------------------------------------------------- columns of users
Email(u) == <<"email", u>>
Name(u) == <<"name", u>>

\* bcrypt.hash / bcrypt.compare: a one-way hash that only the same password
\* verifies against.
bcryptHash(password) == <<"bcrypt", password>>
bcryptCompare(password, hash) == bcryptHash(password) = hash

\* ------------------------------------------------------------ the cipher
\* the key derived from the salt alone
deriveUserKeyOfSalt(password, salt) == <<"pbkdf2", 0, salt>>

deriveUserKey(password, salt) == <<"pbkdf2", password, salt>>

\* crypto.randomBytes(12): 96 random bits, which do not repeat the nonce
\* `stored` that the row holds.  Nonces are only compared for equality, so
\* the least fresh one stands for them all.
randomBytes(stored) ==
  LET fresh == {n \in IVs : <<"iv", n>> # stored} IN
  CHOOSE n \in fresh : \A k \in fresh : n <= k

\* A string is a sequence of UTF-16 code units.  Three stand for them all:
\* an ordinary character, a high surrogate that no low surrogate follows,
\* and U+FFFD.  A JSON text is written as one unit holding the value:
\* JSON.stringify escapes lone surrogates, so its text is well formed.
Char(c) == [cu |-> c]
CodeUnits == {Char("a"), Char("D800"), Char("FFFD")}
JSONstringify(value) == <<[json |-> value]>>
JSONparse(text) == text[1].json

\* cipher.update(data, 'utf8', 'hex'): the UTF-8 bytes of the string, each
\* character's bytes written as the scalar value they encode.  A lone
\* surrogate has no UTF-8 form and is encoded as U+FFFD (EF BF BD).
utf8Write(str) ==
  [i \in DOMAIN str |-> IF str[i] = Char("D800") THEN Char("FFFD") ELSE str[i]]

\* decipher.update(encrypted, 'hex', 'utf8'): the string the bytes encode
utf8Read(bytes) == bytes

encryptMatch(data, password, email, iv) ==
  LET key == deriveUserKey(password, email) IN
  [ encrypted |-> <<"aes-256-gcm", key, iv, utf8Write(data)>>,
    iv        |-> <<"iv", iv>>,
    authTag   |-> <<"tag", key, iv, utf8Write(data)>> ]

\* the Error decipher.final throws, in the place of the string returned
DecryptError ==
  <<[threw |-> "Unsupported state or unable to authenticate data"]>>

\* Buffer.from(iv) without 'hex': the nonce is the bytes of the hex text
decryptMatchIvAsText(encrypted, iv, authTag, password, email) ==
  LET key == deriveUserKey(password, email) IN
  IF /\ encrypted # PENDING
     /\ encrypted[2] = key
     /\ <<"iv-text", iv[2]>> = <<"iv", encrypted[3]>>
     /\ authTag = <<"tag", key, encrypted[3], encrypted[4]>>
  THEN encrypted[4]
  ELSE DecryptError

decryptMatch(encrypted, iv, authTag, password, email) ==
  LET key == deriveUserKey(password, email) IN
  IF /\ encrypted # PENDING
     /\ encrypted[2] = key
     /\ iv = <<"iv", encrypted[3]>>
     /\ authTag = <<"tag", key, encrypted[3], encrypted[4]>>
  THEN utf8Read(encrypted[4])
  ELSE DecryptError

matchData(recipient) ==
  JSONstringify([ recipientId |-> recipient,
                  recipientName |-> Name(recipient),
                  recipientEmail |-> Email(recipient) ])

\* One call of encryptMatch and one of decryptMatch on what it returned
BoxIdle ==
  [ pc |-> "idle", data |-> <<>>, password |-> 0, email |-> <<>>,
    sealed |-> [encrypted |-> PENDING, iv |-> PENDING, authTag |-> PENDING],
    openPassword |-> 0, openEmail |-> <<>>, opened |-> <<>> ]

\* encryptMatch(data, password, email), with the nonce it draws
Encrypt ==
  /\ box.pc = "encrypt"
  /\ \E iv \in IVs :
       box' = [box EXCEPT !.pc = "decrypt",
                 !.sealed = encryptMatch(box.data, box.password, box.email, iv)]
  /\ UNCHANGED <<users, event, matches, req, calls, revealed, gen, limiter>>

\* decryptMatch(encrypted, iv, authTag, password, email) on the three
\* values encryptMatch returned, with any password and email
Decrypt ==
  /\ box.pc = "decrypt"
  /\ \E password \in Passwords, u \in Users :
       box' = [box EXCEPT !.pc = "done",
                 !.openPassword = password, !.openEmail = Email(u),
                 !.opened = decryptMatch(box.sealed.encrypted, box.sealed.iv,
                                         box.sealed.authTag, password, Email(u))]
  /\ UNCHANGED <<users, event, matches, req, calls, revealed, gen, limiter>>

\* ------------------------------------------------- derangement generator
Swap(arr, i, j) == [arr EXCEPT ![i] = arr[j], ![j] = arr[i]]

\* Fisher-Yates: for i from the last index down to the second, swap arr[i]
\* with arr[j] for a random j <= i.  The set of arrays it can return.
RECURSIVE shuffleFrom(_, _)
shuffleFrom(arr, i) ==
  IF i <= 1 THEN {arr}
  ELSE UNION { shuffleFrom(Swap(arr, i, j), i - 1) : j \in 1..i }

shuffle(array) == shuffleFrom(array, Len(array))

\* users.some(...) in place of users.every(...)
isValidSome(list, recipients) ==
  \E i \in 1..Len(list) : list[i] # recipients[i]

\* the check made on the first participant only
isValidFirst(list, recipients) ==
  Len(list) = 0 \/ list[1] # recipients[1]

\* users.every((user, index) => user.id !== recipients[index].id)
isValid(list, recipients) ==
  \A index \in 1..Len(list) : list[index] # recipients[index]

\* An outcome of the generator: the array it returns, or the Error it throws
Returns(recipients) == [returned |-> recipients]
Throws(message) == [threw |-> message]
NeedTwo == Throws("Need at least 2 participants")
Exhausted == Throws("Could not generate valid matches after 100 attempts")

\* generateRandomDerangement (and the same loop of generateMatches) one
\* statement at a time, on the list gen.users.
GenIdle ==
  [ pc |-> "idle", users |-> <<>>, recipients |-> <<>>, isValid |-> FALSE,
    attempts |-> 0 ]

\* lines 27-34: the length check, then recipients = [...users]
GenEnter ==
  /\ gen.pc = "enter"
  /\ gen' = IF Len(gen.users) < 2
            THEN [gen EXCEPT !.pc = "threw"]
            ELSE [gen EXCEPT !.pc = "loop", !.recipients = gen.users,
                             !.isValid = FALSE, !.attempts = 0]
  /\ UNCHANGED <<users, event, matches, req, calls, revealed, box, limiter>>

\* lines 37-44: one turn of while (!isValid && attempts < maxAttempts)
GenShuffle ==
  /\ gen.pc = "loop"
  /\ ~gen.isValid /\ gen.attempts < maxAttempts
  /\ \E r \in shuffle(gen.users) :
       gen' = [gen EXCEPT !.recipients = r,
                          !.isValid = isValid(gen.users, r),
                          !.attempts = @ + 1]
  /\ UNCHANGED <<users, event, matches, req, calls, revealed, box, limiter>>

\* the function without its if (!isValid) throw
GenExitReturns ==
  /\ gen.pc = "loop"
  /\ ~(~gen.isValid /\ gen.attempts < maxAttempts)
  /\ gen' = [gen EXCEPT !.pc = "returned"]
  /\ UNCHANGED <<users, event, matches, req, calls, revealed, box, limiter>>

\* lines 46-50: the loop is left; throw if (!isValid), else return recipients
GenExit ==
  /\ gen.pc = "loop"
  /\ ~(~gen.isValid /\ gen.attempts < maxAttempts)
  /\ gen' = [gen EXCEPT !.pc = IF ~gen.isValid THEN "threw" ELSE "returned"]
  /\ UNCHANGED <<users, event, matches, req, calls, revealed, box, limiter>>

\* The outcomes of generateRandomDerangement(users): the while loop shuffles
\* at most maxAttempts times and stops at the first shuffle that isValid, so
\* it returns any valid shuffle, and throws when every attempt was invalid.
generateRandomDerangement(list) ==
  IF Len(list) < 2 THEN {NeedTwo}
  ELSE LET tries == shuffle(list) IN
       {Returns(r) : r \in {x \in tries : maxAttempts > 0 /\ isValid(list, x)}}
       \cup (IF maxAttempts = 0 \/ \E r \in tries : ~isValid(list, r)
             THEN {Exhausted}
             ELSE {})

\* ORDER BY id
RECURSIVE OrderById(_)
OrderById(ids) ==
  IF ids = {} THEN <<>>
  ELSE LET first == CHOOSE i \in ids : \A j \in ids : i <= j IN
       <<first>> \o OrderById(ids \ {first})

\* SELECT id, email, name FROM users WHERE event_id = ? ORDER BY id
allUsersList == OrderById({u \in Users : users[u] # NoRow})

\* ------------------------------------------------------------- requests
Idle ==
  [ pc |-> "idle", kind |-> "none", u |-> 0, pw |-> 0, valid |-> FALSE,
    evGen |-> FALSE, event |-> NoRow, match |-> NoRow, givers |-> <<>>,
    recipients |-> <<>>, i |-> 0, call |-> 0, found |-> "none",
    wrote |-> FALSE, error |-> "", token |-> "none", body |-> NoRow,
    resp |-> NoResponse ]

\* A slot is free for the next request once its response is sent.
Free(s) == req[s].pc = "idle"

Respond(s, r) ==
  [req EXCEPT ![s] = [@ EXCEPT !.pc = "done", !.resp = r, !.givers = <<>>,
                                 !.recipients = <<>>, !.i = 0, !.call = 0]]

\* the body of the response with theme read from the wrong column
OkThemeFromBonus(data, ev) ==
  [ status |-> 200,
    match |-> [name |-> data.recipientName, email |-> data.recipientEmail],
    rules |-> [maxSpend |-> ev.max_spend, bonusItem |-> ev.bonus_item,
               theme |-> ev.bonus_item] ]

\* lines 190-201: the body of the successful response, from the decrypted
\* data and the `event` the handler read at line 77
Ok(data, ev) ==
  [ status |-> 200,
    match |-> [name |-> data.recipientName, email |-> data.recipientEmail],
    rules |-> [maxSpend |-> ev.max_spend, bonusItem |-> ev.bonus_item,
               theme |-> ev.theme] ]
Err(status, error) == [status |-> status, error |-> error]

InvalidPassword == Err(401, "Invalid password")
NotReady == Err(400, "Not all participants have registered yet")
GenerateFailed == Err(500, "Failed to generate matches")
DecryptFailed == Err(500, "Failed to decrypt match. Please check your password.")
InternalError == Err(500, "Internal server error")

\* lines 152-155: catch (error) of the generation block, whatever the error
GenerationFailure(error) == GenerateFailed

\* lines 180-206: decrypt the row held in `match` and respond.  When the
\* SELECT of line 77 found no event, event.max_spend throws inside the try
\* and its catch answers like a failed decryption.
DecryptResponse(m, password, u, ev) ==
  LET decrypted == decryptMatch(m.encrypted_data, m.iv, m.auth_tag,
                                password, Email(u)) IN
  IF decrypted = DecryptError \/ ev = NoRow THEN DecryptFailed
  ELSE Ok(JSONparse(decrypted), ev)

\* ------------------------------------------------------------ authLimiter
\* The endpoints of routes/auth.js, and those mounted behind authLimiter
Endpoints == {"admin-login", "signup", "login", "refresh"}
Limited == {"admin-login", "signup", "login"}

\* The store of the limiter for one client (the key is the client's IP):
\* hits counts the requests that went through authLimiter in the current
\* window.  made and last record what the client sent and how the last
\* request was answered.
LimiterIdle ==
  [ hits |-> 0, made |-> [e \in Endpoints |-> 0],
    last |-> [endpoint |-> "none", before |-> 0, refused |-> FALSE] ]

\* router.post(path, authLimiter, ...) or router.post(path, ...)
IsLimited(endpoint) == endpoint \in Limited

\* The client sends a request to an endpoint of /api/auth.  authLimiter
\* counts it and refuses it when the count exceeds max; /refresh is
\* mounted without the limiter and goes straight to its handler.
AuthRequest ==
  /\ limiter.made["admin-login"] + limiter.made["signup"]
       + limiter.made["login"] + limiter.made["refresh"] < MaxRequests
  /\ \E endpoint \in Endpoints :
       LET hits == IF IsLimited(endpoint) THEN limiter.hits + 1
                   ELSE limiter.hits IN
       limiter' =
         [ hits |-> hits,
           made |-> [limiter.made EXCEPT ![endpoint] = @ + 1],
           last |-> [endpoint |-> endpoint, before |-> limiter.made[endpoint],
                     refused |-> IsLimited(endpoint) /\ hits > max] ]
  /\ UNCHANGED <<users, event, matches, req, calls, revealed, gen, box>>

\* windowMs after the first request of the window the store is reset
WindowExpires ==
  /\ limiter.hits > 0 \/ limiter.made["refresh"] > 0
  /\ limiter' = LimiterIdle
  /\ UNCHANGED <<users, event, matches, req, calls, revealed, gen, box>>

\* The event has been created with its NumUsers participants; the last
\* NumPending of them have yet to sign up, the others have signed up, each
\* with a password of their own, written 1 (a user's passwords are only
\* ever compared with that user's).
Pending == {u \in Users : u > NumUsers - NumPending}

Init ==
  /\ users = [u \in Users |->
               IF u \in Pending
               THEN [is_registered |-> FALSE, password_hash |-> NULL,
                     signup_token |-> <<"token", u>>,
                     signup_email_sent_at |-> NULL, last_login |-> NULL]
               ELSE [is_registered |-> TRUE, password_hash |-> bcryptHash(1),
                     signup_token |-> NULL,
                     signup_email_sent_at |-> NULL, last_login |-> NULL]]
  /\ event = NewEvent
  /\ matches = {}
  /\ req = [s \in Slots |-> Idle]
  /\ calls = 0
  /\ revealed = {}
  /\ gen = GenIdle
  /\ box = BoxIdle
  /\ limiter = LimiterIdle

\* ------------------------------------------------ POST /api/auth/signup
SignupOk(u) == [status |-> 200, message |-> "Registration successful", user |-> u]
InvalidToken == Err(400, "Invalid or expired token")

\* lines 67-91: a request arrives with a signup token and a password of 8
\* characters or more, and runs to its first await: SELECT * FROM users
\* WHERE signup_token = ? AND token_expires > datetime('now') AND
\* is_registered = 0.  The clock is not modelled: an unexpired token may be
\* found, and any token may have expired.
SignupFind(s) ==
  /\ Free(s)
  /\ \E u \in Users, pw \in Passwords, expired \in BOOLEAN :
       LET user == users[u]
           r == [Idle EXCEPT !.kind = "signup", !.u = u, !.pw = pw] IN
       IF /\ ~expired
          /\ user # NoRow
          /\ user.signup_token = <<"token", u>>
          /\ ~user.is_registered
       THEN req' = [req EXCEPT ![s] = [r EXCEPT !.pc = "signupUpdate"]]
       ELSE req' = [req EXCEPT ![s] = [r EXCEPT !.pc = "done", !.pw = 0,
                                                 !.resp = InvalidToken]]
  /\ UNCHANGED <<users, event, matches, calls, revealed, gen, box, limiter>>

\* UPDATE users SET password_hash = ?, is_registered = 1, signup_token =
\* NULL, token_expires = NULL WHERE id = ?
SignupUpdate(s) ==
  /\ req[s].pc = "signupUpdate"
  /\ users' = [users EXCEPT ![req[s].u] =
                 IF @ = NoRow THEN @
                 ELSE [@ EXCEPT !.is_registered = TRUE,
                                !.password_hash = bcryptHash(req[s].pw),
                                !.signup_token = NULL]]
  /\ req' = [req EXCEPT ![s].pc = "signupCheckAll"]
  /\ UNCHANGED <<event, matches, calls, revealed, gen, box, limiter>>

\* SELECT * FROM users WHERE event_id = ?; allUsers.every(u => u.is_registered)
SignupCheckAll(s) ==
  /\ req[s].pc = "signupCheckAll"
  /\ IF \A u \in Users : users[u] # NoRow => users[u].is_registered
     THEN req' = [req EXCEPT ![s].pc = "signupGetEvent"]
     ELSE req' = Respond(s, SignupOk(req[s].u))
  /\ UNCHANGED <<users, event, matches, calls, revealed, gen, box, limiter>>

\* SELECT * FROM events WHERE id = ?; if (!event.matches_generated), which
\* throws into the catch when there is no event
SignupGetEvent(s) ==
  /\ req[s].pc = "signupGetEvent"
  /\ IF event = NoRow THEN req' = Respond(s, InternalError)
     ELSE IF ~event.matches_generated
     THEN req' = [req EXCEPT ![s].pc = "signupSetAllRegistered"]
     ELSE req' = Respond(s, SignupOk(req[s].u))
  /\ UNCHANGED <<users, event, matches, calls, revealed, gen, box, limiter>>

\* UPDATE events SET all_registered = 1 WHERE id = ?
SignupSetAllRegistered(s) ==
  /\ req[s].pc = "signupSetAllRegistered"
  /\ event' = IF event = NoRow THEN event
              ELSE [event EXCEPT !.all_registered = TRUE]
  /\ req' = [req EXCEPT ![s].pc = "signupSendEmails"]
  /\ UNCHANGED <<users, matches, calls, revealed, gen, box, limiter>>

\* await sendAllMatchReadyEmails(db, user.event_id): sendMail may throw,
\* which the handler's catch turns into a 500.
SignupSendEmails(s) ==
  /\ req[s].pc = "signupSendEmails"
  /\ \E sent \in BOOLEAN :
       req' = Respond(s, IF sent THEN SignupOk(req[s].u) ELSE InternalError)
  /\ UNCHANGED <<users, event, matches, calls, revealed, gen, box, limiter>>

\* ----------------------------------------------- GET /api/match/my-match
\* the handler throwing on a password that does not verify
GetUserWrongThrows(s) ==
  /\ Free(s)
  /\ \E u \in Users, pw \in Passwords :
       LET r == [Idle EXCEPT !.kind = "reveal", !.u = u, !.pw = pw] IN
       IF users[u].password_hash = NULL \/ ~bcryptCompare(pw, users[u].password_hash)
       THEN req' = [req EXCEPT ![s] = [r EXCEPT !.pc = "done",
                                                 !.resp = InternalError]]
       ELSE req' = [req EXCEPT ![s] = [r EXCEPT !.pc = "getEvent",
                                                 !.valid = TRUE]]
  /\ UNCHANGED <<users, event, matches, calls, revealed, gen, box, limiter>>

\* the handler without its bcrypt.compare
GetUserNoCompare(s) ==
  /\ Free(s)
  /\ \E u \in Users, pw \in Passwords :
       LET r == [Idle EXCEPT !.kind = "reveal", !.u = u, !.pw = pw] IN
       IF users[u].password_hash = NULL
       THEN req' = [req EXCEPT ![s] = [r EXCEPT !.pc = "done",
                                                 !.resp = InternalError]]
       ELSE req' = [req EXCEPT ![s] = [r EXCEPT !.pc = "getEvent"]]
  /\ UNCHANGED <<users, event, matches, calls, revealed, gen, box, limiter>>

\* lines 58-75: a request arrives with a token naming user u and a
\* non-empty password, and runs to its first await: SELECT the user of the
\* token, then bcrypt.compare.  With no such user, user.password_hash
\* throws; compare rejects when the stored hash is null; the outer catch
\* reports both.
GetUser(s) ==
  /\ Free(s)
  /\ \E u \in Users, pw \in Passwords :
       LET user == users[u]
           r == [Idle EXCEPT !.kind = "reveal", !.u = u, !.pw = pw,
                             !.token = "participant"] IN
       IF user = NoRow \/ user.password_hash = NULL
       THEN req' = [req EXCEPT ![s] = [r EXCEPT !.pc = "done",
                                                 !.resp = InternalError]]
       ELSE IF ~bcryptCompare(pw, user.password_hash)
       THEN req' = [req EXCEPT ![s] = [r EXCEPT !.pc = "done",
                                                 !.resp = InvalidPassword]]
       ELSE req' = [req EXCEPT ![s] = [r EXCEPT !.pc = "getEvent",
                                                 !.valid = TRUE]]
  /\ UNCHANGED <<users, event, matches, calls, revealed, gen, box, limiter>>

\* The columns of the event that the response of line 192 is built from
Rules(ev) ==
  IF ev = NoRow THEN NoRow
  ELSE [max_spend |-> ev.max_spend, bonus_item |-> ev.bonus_item,
        theme |-> ev.theme]

\* line 77: SELECT * FROM events WHERE id = ?
GetEvent(s) ==
  /\ req[s].pc = "getEvent"
  /\ req' = [req EXCEPT ![s].pc = "getAllUsers",
                        ![s].evGen = event # NoRow /\ event.matches_generated,
                        ![s].event = Rules(event)]
  /\ UNCHANGED <<users, event, matches, calls, revealed, gen, box, limiter>>

\* the handler without its allRegistered check
GetAllUsersUnchecked(s) ==
  /\ req[s].pc = "getAllUsers"
  /\ req' = [req EXCEPT ![s].pc = "getMatch"]
  /\ UNCHANGED <<users, event, matches, calls, revealed, gen, box, limiter>>

\* lines 80-85: allRegistered, which is true of an empty list
GetAllUsers(s) ==
  /\ req[s].pc = "getAllUsers"
  /\ IF \A u \in Users : users[u] # NoRow => users[u].is_registered
     THEN /\ req' = [req EXCEPT ![s].pc = "getMatch"]
     ELSE req' = Respond(s, NotReady)
  /\ UNCHANGED <<users, event, matches, calls, revealed, gen, box, limiter>>

\* dbGet: the row the SELECT returns, or NULL for undefined
RowWhere(rows) == IF rows = {} THEN NoRow ELSE CHOOSE m \in rows : TRUE

\* the handler sealing whatever row it holds, PENDING or not
AfterMatchAlwaysSeals(s, m, found) ==
  IF m = NoRow THEN req' = Respond(s, InternalError)
  ELSE req' = [req EXCEPT ![s].pc = "sealGetRecipient", ![s].match = m,
                          ![s].found = found,
                          ![s].recipients = <<>>, ![s].i = 0, ![s].call = 0]

\* lines 159-206 with `match` in hand: seal it when PENDING, else decrypt.
\* Reading match.encrypted_data of undefined throws into the outer catch.
AfterMatch(s, m, found) ==
  IF m = NoRow THEN req' = Respond(s, InternalError)
  ELSE IF m.encrypted_data = PENDING
  THEN /\ req' = [req EXCEPT ![s].pc = "sealGetRecipient", ![s].match = m,
                             ![s].found = found,
                             ![s].recipients = <<>>, ![s].i = 0, ![s].call = 0]
  ELSE req' = [Respond(s, DecryptResponse(m, req[s].pw, req[s].u, req[s].event))
                 EXCEPT ![s].match = m, ![s].found = found]

\* the handler generating whenever the giver has no row
GetMatchIgnoresFlag(s) ==
  /\ req[s].pc = "getMatch"
  /\ LET m == RowWhere({x \in matches : x.giver_id = req[s].u}) IN
     IF m = NoRow
     THEN /\ req' = [req EXCEPT ![s].pc = "generate", ![s].evGen = FALSE]
     ELSE AfterMatch(s, m, IF m.encrypted_data = PENDING THEN "pending"
                           ELSE "sealed")
  /\ UNCHANGED <<users, event, matches, calls, revealed, gen, box, limiter>>

\* lines 88-92: SELECT * FROM matches WHERE giver_id = ?.  With no row
\* and no event, event.matches_generated throws into the outer catch.
GetMatch(s) ==
  /\ req[s].pc = "getMatch"
  /\ LET m == RowWhere({x \in matches : x.giver_id = req[s].u}) IN
     IF m = NoRow /\ req[s].event = NoRow
     THEN req' = Respond(s, InternalError)
     ELSE IF m = NoRow /\ ~req[s].evGen
     THEN /\ req' = [req EXCEPT ![s].pc = "generate", ![s].evGen = FALSE]
     ELSE AfterMatch(s, m, IF m = NoRow THEN "none"
                           ELSE IF m.encrypted_data = PENDING THEN "pending"
                           ELSE "sealed")
  /\ UNCHANGED <<users, event, matches, calls, revealed, gen, box, limiter>>

\* lines 95-102: read the participants in id order and draw the derangement
Generate(s) ==
  /\ req[s].pc = "generate"
  /\ calls < MaxCalls
  /\ calls' = calls + 1
  /\ \E out \in generateRandomDerangement(allUsersList) :
       IF out \in {NeedTwo, Exhausted}
       THEN req' = [Respond(s, GenerationFailure(out.threw))
                      EXCEPT ![s].error = out.threw]
       ELSE /\ req' = [req EXCEPT ![s].pc = "insert", ![s].givers = allUsersList,
                                  ![s].recipients = out.returned,
                                  ![s].i = 1, ![s].call = calls + 1]
  /\ UNCHANGED <<users, event, matches, revealed, gen, box, limiter>>

NextMatchId ==
  IF matches = {} THEN 1
  ELSE 1 + CHOOSE n \in {m.id : m \in matches} : \A m \in matches : m.id <= n

\* the Error dbRun rejects with when the INSERT breaks the constraint
ConstraintFailed ==
  "SQLITE_CONSTRAINT: UNIQUE constraint failed: matches.event_id, matches.giver_id"

\* table matches without its UNIQUE constraint
NoUniqueViolation(giver) == FALSE

\* the Error dbRun rejects with when the INSERT names a missing row
ForeignKeyFailed == "SQLITE_CONSTRAINT: FOREIGN KEY constraint failed"

\* table matches without its foreign keys
NoForeignKeyViolation(giver, recipient) == FALSE

\* FOREIGN KEY (event_id), (giver_id), (recipient_id) of table matches,
\* enforced since PRAGMA foreign_keys = ON
ForeignKeyViolation(giver, recipient) ==
  event = NoRow \/ users[giver] = NoRow \/ users[recipient] = NoRow

\* UNIQUE(event_id, giver_id) of table matches
UniqueViolation(giver) == \E m \in matches : m.giver_id = giver

\* lines 105-144, one turn of the loop: INSERT INTO matches for giver i,
\* encrypted for the requesting user and PENDING for the others.  A
\* constraint error leaves the loop through the catch of line 152.
InsertMatch(s) ==
  /\ req[s].pc = "insert"
  /\ LET giver == req[s].givers[req[s].i]
         recipient == req[s].recipients[req[s].i]
         row == [id |-> NextMatchId, event_id |-> 1, giver_id |-> giver,
                 recipient_id |-> recipient, call |-> req[s].call]
     IN IF UniqueViolation(giver)
        THEN /\ req' = [Respond(s, GenerationFailure(ConstraintFailed))
                         EXCEPT ![s].error = ConstraintFailed]
             /\ UNCHANGED matches
        ELSE IF ForeignKeyViolation(giver, recipient)
        THEN /\ req' = [Respond(s, GenerationFailure(ForeignKeyFailed))
                         EXCEPT ![s].error = ForeignKeyFailed]
             /\ UNCHANGED matches
        ELSE /\ LET encrypted == encryptMatch(matchData(recipient),
                                                req[s].pw, Email(req[s].u),
                                                randomBytes(PENDING))
                IN matches' = matches \cup
                       {IF giver = req[s].u
                        THEN row @@ [encrypted_data |-> encrypted.encrypted,
                                     iv |-> encrypted.iv,
                                     auth_tag |-> encrypted.authTag]
                        ELSE row @@ [encrypted_data |-> PENDING,
                                     iv |-> PENDING, auth_tag |-> PENDING]}
             /\ req' = [req EXCEPT ![s].i = @ + 1, ![s].wrote = TRUE,
                                   ![s].pc = IF req[s].i = Len(req[s].givers)
                                             THEN "setFlag" ELSE "insert"]
  /\ UNCHANGED <<users, event, calls, revealed, gen, box, limiter>>

\* line 146: UPDATE events SET matches_generated = 1 WHERE id = ?
SetFlag(s) ==
  /\ req[s].pc = "setFlag"
  /\ event' = IF event = NoRow THEN event
              ELSE [event EXCEPT !.matches_generated = TRUE]
  /\ req' = [req EXCEPT ![s].pc = "reGetMatch", ![s].wrote = TRUE]
  /\ UNCHANGED <<users, matches, calls, revealed, gen, box, limiter>>

\* line 151: SELECT * FROM matches WHERE giver_id = ?, then lines 159-206
ReGetMatch(s) ==
  /\ req[s].pc = "reGetMatch"
  /\ AfterMatch(s, RowWhere({x \in matches : x.giver_id = req[s].u}), "none")
  /\ UNCHANGED <<users, event, matches, calls, revealed, gen, box, limiter>>

\* line 161: SELECT * FROM users WHERE id = match.recipient_id.  With no
\* such user, recipient.id throws into the outer catch.
SealGetRecipient(s) ==
  /\ req[s].pc = "sealGetRecipient"
  /\ req' = IF users[req[s].match.recipient_id] = NoRow
            THEN Respond(s, InternalError)
            ELSE [req EXCEPT ![s].pc = "sealUpdate"]
  /\ UNCHANGED <<users, event, matches, calls, revealed, gen, box, limiter>>

\* the seal reading the recipient WHERE id = match.giver_id
SealUpdateOfGiver(s) ==
  /\ req[s].pc = "sealUpdate"
  /\ matches' = { IF m.id = req[s].match.id
                  THEN LET encrypted ==
                             encryptMatch(matchData(req[s].match.giver_id),
                                          req[s].pw, Email(req[s].u),
                                          randomBytes(m.iv))
                       IN
                       [m EXCEPT !.encrypted_data = encrypted.encrypted,
                                 !.iv = encrypted.iv,
                                 !.auth_tag = encrypted.authTag]
                  ELSE m : m \in matches }
  /\ req' = [req EXCEPT ![s].pc = "sealReGet", ![s].wrote = TRUE]
  /\ UNCHANGED <<users, event, calls, revealed, gen, box, limiter>>

\* the seal writing encrypted_data in one statement, iv and auth_tag in
\* the statements after it
SealUpdateDataOnly(s) ==
  /\ req[s].pc = "sealUpdate"
  /\ matches' =
       { IF m.id = req[s].match.id
         THEN [m EXCEPT !.encrypted_data =
                 encryptMatch(matchData(req[s].match.recipient_id), req[s].pw,
                              Email(req[s].u), randomBytes(m.iv)).encrypted]
         ELSE m : m \in matches }
  /\ req' = [req EXCEPT ![s].pc = "sealReGet", ![s].wrote = TRUE]
  /\ UNCHANGED <<users, event, calls, revealed, gen, box, limiter>>

\* lines 163-175: encrypt, UPDATE matches SET encrypted_data = ?, iv = ?,
\* auth_tag = ? WHERE id = ?
SealUpdate(s) ==
  /\ req[s].pc = "sealUpdate"
  /\ \/ /\ matches' =
             { IF m.id = req[s].match.id
               THEN LET encrypted ==
                          encryptMatch(matchData(req[s].match.recipient_id),
                                       req[s].pw, Email(req[s].u),
                                       randomBytes(m.iv))
                    IN
                    [m EXCEPT !.encrypted_data = encrypted.encrypted,
                              !.iv = encrypted.iv,
                              !.auth_tag = encrypted.authTag]
               ELSE m : m \in matches }
        /\ req' = [req EXCEPT ![s].pc = "sealReGet", ![s].wrote = TRUE]
     \/ \* dbRun rejects (the database is busy or the disk is full): the
        \* statement changes nothing and the outer catch answers
        /\ UNCHANGED matches
        /\ req' = Respond(s, InternalError)
  /\ UNCHANGED <<users, event, calls, revealed, gen, box, limiter>>

\* line 177: SELECT * FROM matches WHERE id = ?, then lines 180-206.  With
\* no row, match.encrypted_data throws inside the try of line 181.
SealReGet(s) ==
  /\ req[s].pc = "sealReGet"
  /\ LET m == RowWhere({x \in matches : x.id = req[s].match.id}) IN
     IF m = NoRow THEN req' = Respond(s, DecryptFailed)
     ELSE req' = [Respond(s, DecryptResponse(m, req[s].pw, req[s].u, req[s].event))
                    EXCEPT ![s].match = m]
  /\ UNCHANGED <<users, event, matches, calls, revealed, gen, box, limiter>>

\* res.json(...): the response is sent and the request is over.
Finish(s) ==
  /\ req[s].pc = "done"
  /\ req' = [req EXCEPT ![s] = Idle]
  /\ revealed' = IF req[s].kind = "reveal" /\ req[s].resp.status = 200
                 THEN revealed \cup {<<req[s].u, req[s].resp.match>>}
                 ELSE revealed
  /\ UNCHANGED <<users, event, matches, calls, gen, box, limiter>>

Next ==
  \E s \in Slots :
    \/ SignupFind(s)
    \/ SignupUpdate(s)
    \/ SignupCheckAll(s)
    \/ SignupGetEvent(s)
    \/ SignupSetAllRegistered(s)
    \/ SignupSendEmails(s)
    \/ GetUser(s)
    \/ GetEvent(s)
    \/ GetAllUsers(s)
    \/ GetMatch(s)
    \/ Generate(s)
    \/ InsertMatch(s)
    \/ SetFlag(s)
    \/ ReGetMatch(s)
    \/ SealGetRecipient(s)
    \/ SealUpdate(s)
    \/ SealReGet(s)
    \/ Finish(s)

Spec == Init /\ [][Next]_vars

\* ------------------------------------------------- POST /api/auth/login
LoginOk(u) == [status |-> 200, message |-> "Login successful", user |-> u]
InvalidCredentials == Err(401, "Invalid credentials")

\* lines 147-168: a request arrives with an email and a password: SELECT *
\* FROM users WHERE email = ? AND is_registered = 1, then bcrypt.compare.
\* The first NumLogins participants are the ones who log in.
LoginFind(s) ==
  /\ Free(s)
  /\ \E u \in 1..NumLogins, pw \in Passwords :
       LET user == users[u]
           r == [Idle EXCEPT !.kind = "login", !.u = u, !.pw = pw] IN
       IF user = NoRow \/ ~user.is_registered
          \/ ~bcryptCompare(pw, user.password_hash)
       THEN req' = [req EXCEPT ![s] = [r EXCEPT !.pc = "done",
                                                 !.resp = InvalidCredentials]]
       ELSE req' = [req EXCEPT ![s] = [r EXCEPT !.pc = "loginUpdate",
                                                 !.valid = TRUE]]
  /\ UNCHANGED <<users, event, matches, calls, revealed, gen, box, limiter>>

\* lines 171-185: UPDATE users SET last_login = datetime('now') WHERE id = ?
LoginUpdate(s) ==
  /\ req[s].pc = "loginUpdate"
  /\ users' = [users EXCEPT ![req[s].u] =
                 IF @ = NoRow THEN @ ELSE [@ EXCEPT !.last_login = Now]]
  /\ req' = Respond(s, LoginOk(req[s].u))
  /\ UNCHANGED <<event, matches, calls, revealed, gen, box, limiter>>

\* ------------------------------------------------------ /api/admin routes
\* The admin routes served for the one event, and the tokens a request may
\* carry: generateTokens signs {userId, email} for an admin at admin-login
\* and for a participant at signup and login.
ReadRoutes == {"events", "event"}
WriteRoutes == {"put", "delete", "invites", "status"}
AdminRoutes == ReadRoutes \cup WriteRoutes
Tokens ==
  {[issued |-> "admin", userId |-> a] : a \in Admins}
  \cup {[issued |-> "participant", userId |-> u] : u \in Users}

\* x || null
OrNull(x) == IF x = "" THEN NULL ELSE x

\* The bodies a request may carry: of PUT, the stored values again or an
\* edited set; of PATCH, a status of the list or not.
Bodies(route) ==
  IF route = "put"
  THEN { [name |-> NewEvent.name, maxSpend |-> NewEvent.max_spend,
          bonusItem |-> NewEvent.bonus_item, theme |-> NewEvent.theme,
          matchDeadline |-> NewEvent.match_deadline,
          giftDeadline |-> NewEvent.gift_deadline],
         [name |-> "Secret Santa 2025", maxSpend |-> "500",
          bonusItem |-> "a book", theme |-> "Handmade", matchDeadline |-> "2025-12-15",
          giftDeadline |-> "2025-12-24"] }
  ELSE IF route = "status"
  THEN {[status |-> "inactive"], [status |-> "archived"]}
  ELSE {NoRow}

AdminRequired == Err(403, "Admin access required")
EventNotFound == Err(404, "Event not found")
CannotEdit == Err(400, "Cannot edit event after matches are generated")
InvalidStatus ==
  Err(400, "Invalid status. Must be: active, inactive, or completed")
SendFailed == Err(500, "Failed to send emails")
EventUpdated == [status |-> 200, message |-> "Event updated successfully"]
EventDeleted == [status |-> 200, message |-> "Event deleted successfully"]
InvitesSent == [status |-> 200, message |-> "Signup emails sent successfully"]
\* {message, status}: the status of the body is written eventStatus here,
\* status being the HTTP status of the response
StatusUpdated(status) ==
  [status |-> 200, message |-> "Event status updated successfully",
   eventStatus |-> status]

\* verifyAdmin: SELECT * FROM admins WHERE id = ? with the userId of the
\* token; the row found becomes req.admin
verifyAdmin(t) == IF t.userId \in Admins THEN [id |-> t.userId] ELSE NoRow

\* A request arrives at one of the admin routes with a valid token:
\* verifyToken, verifyAdmin, then the handler up to its first await.
AdminArrive(s, routes) ==
  /\ Free(s)
  /\ \E route \in routes, t \in Tokens :
       \E body \in Bodies(route) :
         LET r == [Idle EXCEPT !.kind = route, !.u = t.userId,
                               !.token = t.issued, !.body = body]
             to(pc) == req' = [req EXCEPT ![s] = [r EXCEPT !.pc = pc]]
             answer(resp) ==
               req' = [req EXCEPT ![s] = [r EXCEPT !.pc = "done",
                                                   !.resp = resp]]
         IN IF verifyAdmin(t) = NoRow THEN answer(AdminRequired)
            ELSE IF route = "status"
                    /\ body.status \notin {"active", "inactive", "completed"}
            THEN answer(InvalidStatus)
            ELSE to(route)
  /\ UNCHANGED <<users, event, matches, calls, revealed, gen, box, limiter>>

\* SELECT * FROM events WHERE id = ?
AnyEvent(s) == event

\* SELECT * FROM events WHERE id = ? AND admin_id = ?
OwnEvent(s) ==
  IF event # NoRow /\ event.admin_id = req[s].u THEN event ELSE NoRow

\* The columns of users that exist
Participants == {u \in Users : users[u] # NoRow}

\* lines 34-69, GET /events: the events of the admin with their counts
ListEvents(s) ==
  /\ req[s].pc = "events"
  /\ LET events ==
           IF OwnEvent(s) = NoRow THEN {}
           ELSE { [ event |-> event,
                    total_participants |-> Cardinality(Participants),
                    registered_count |->
                      Cardinality({u \in Participants : users[u].is_registered}),
                    emails_sent |->
                      Cardinality({u \in Participants :
                                     users[u].signup_email_sent_at # NULL}) ] }
         count(status) == Cardinality({x \in events : x.event.status = status})
     IN req' = Respond(s,
          [ status |-> 200, events |-> events,
            stats |-> [active |-> count("active"),
                       inactive |-> count("inactive"),
                       completed |-> count("completed"),
                       total |-> Cardinality(events)] ])
  /\ UNCHANGED <<users, event, matches, calls, revealed, gen, box, limiter>>

\* lines 75-84, GET /events/:id: the event
GetOneEvent(s) ==
  /\ req[s].pc = "event"
  /\ IF OwnEvent(s) = NoRow THEN req' = Respond(s, EventNotFound)
     ELSE req' = [req EXCEPT ![s].pc = "eventParticipants",
                             ![s].event = OwnEvent(s)]
  /\ UNCHANGED <<users, event, matches, calls, revealed, gen, box, limiter>>

\* participants.map(...) of lines 108-118
Participant(u) ==
  [ id |-> u, name |-> Name(u), email |-> Email(u),
    isRegistered |-> users[u].is_registered,
    emailSent |-> users[u].signup_email_sent_at # NULL,
    emailSentAt |-> users[u].signup_email_sent_at,
    lastLogin |-> users[u].last_login,
    hasToken |-> users[u].signup_token # NULL ]

\* the response of GET /events/:id from the event read and the users
EventDetail(ev, participants) ==
  [ status |-> 200,
    event |-> [ id |-> 1, name |-> ev.name, maxSpend |-> ev.max_spend,
                bonusItem |-> ev.bonus_item, theme |-> ev.theme,
                matchDeadline |-> ev.match_deadline,
                giftDeadline |-> ev.gift_deadline,
                allRegistered |-> ev.all_registered,
                matchesGenerated |-> ev.matches_generated,
                status |-> ev.status ],
    participants |-> participants,
    stats |-> [ total |-> Cardinality(participants),
                registered |->
                  Cardinality({p \in participants : p.isRegistered}),
                pending |->
                  Cardinality({p \in participants : ~p.isRegistered}),
                emailsSent |->
                  Cardinality({p \in participants : p.emailSent}) ] ]

\* GET /events/:id joining each participant with the match row they give in
GetParticipantsWithMatch(s) ==
  /\ req[s].pc = "eventParticipants"
  /\ req' = Respond(s, EventDetail(req[s].event,
              { Participant(u) @@
                  [recipientId |->
                     LET m == RowWhere({x \in matches : x.giver_id = u}) IN
                     IF m = NoRow THEN NULL ELSE <<m.recipient_id>>]
                : u \in Participants }))
  /\ UNCHANGED <<users, event, matches, calls, revealed, gen, box, limiter>>

\* lines 86-126, GET /events/:id: SELECT ... FROM users WHERE event_id = ?
GetParticipants(s) ==
  /\ req[s].pc = "eventParticipants"
  /\ req' = Respond(s, EventDetail(req[s].event,
                                   {Participant(u) : u \in Participants}))
  /\ UNCHANGED <<users, event, matches, calls, revealed, gen, box, limiter>>

\* lines 187-195, PUT /events/:id: the event and the check of its flag
PutGet(s) ==
  /\ req[s].pc = "put"
  /\ IF OwnEvent(s) = NoRow THEN req' = Respond(s, EventNotFound)
     ELSE IF OwnEvent(s).matches_generated THEN req' = Respond(s, CannotEdit)
     ELSE req' = [req EXCEPT ![s].pc = "putUpdate", ![s].event = OwnEvent(s)]
  /\ UNCHANGED <<users, event, matches, calls, revealed, gen, box, limiter>>

\* lines 197-203: UPDATE events SET name = ?, max_spend = ?, bonus_item =
\* ?, theme = ?, match_deadline = ?, gift_deadline = ? WHERE id = ?
PutUpdate(s) ==
  /\ req[s].pc = "putUpdate"
  /\ event' = IF event = NoRow THEN event
              ELSE [event EXCEPT !.name = req[s].body.name,
                                 !.max_spend = req[s].body.maxSpend,
                                 !.bonus_item = OrNull(req[s].body.bonusItem),
                                 !.theme = OrNull(req[s].body.theme),
                                 !.match_deadline = req[s].body.matchDeadline,
                                 !.gift_deadline = req[s].body.giftDeadline]
  /\ req' = Respond(s, EventUpdated)
  /\ UNCHANGED <<users, matches, calls, revealed, gen, box, limiter>>

\* lines 219-223, DELETE /events/:id: the event
DeleteGet(s) ==
  /\ req[s].pc = "delete"
  /\ IF OwnEvent(s) = NoRow THEN req' = Respond(s, EventNotFound)
     ELSE req' = [req EXCEPT ![s].pc = "deleteRun", ![s].event = OwnEvent(s)]
  /\ UNCHANGED <<users, event, matches, calls, revealed, gen, box, limiter>>

\* lines 226-230: DELETE FROM events WHERE id = ?, and with it the users
\* and the matches of the event: ON DELETE CASCADE of users.event_id and
\* of matches.event_id, giver_id and recipient_id
DeleteRun(s) ==
  /\ req[s].pc = "deleteRun"
  /\ event' = NoRow
  /\ users' = [u \in Users |-> NoRow]
  /\ matches' = {}
  /\ req' = Respond(s, EventDeleted)
  /\ UNCHANGED <<calls, revealed, gen, box, limiter>>

\* lines 246-250, POST /events/:id/send-invites: the event
InvitesGet(s) ==
  /\ req[s].pc = "invites"
  /\ IF OwnEvent(s) = NoRow THEN req' = Respond(s, EventNotFound)
     ELSE req' = [req EXCEPT ![s].pc = "invitesList", ![s].event = OwnEvent(s)]
  /\ UNCHANGED <<users, event, matches, calls, revealed, gen, box, limiter>>

\* email.js 153, sendAllSignupEmails: SELECT * FROM users WHERE event_id =
\* ? AND is_registered = 0
InvitesList(s) ==
  /\ req[s].pc = "invitesList"
  /\ LET list == OrderById({u \in Participants : ~users[u].is_registered}) IN
     IF list = <<>> THEN req' = Respond(s, InvitesSent)
     ELSE req' = [req EXCEPT ![s].pc = "invitesSend", ![s].givers = list,
                             ![s].i = 1]
  /\ UNCHANGED <<users, event, matches, calls, revealed, gen, box, limiter>>

\* email.js 155-159 and 37-94, one turn of the loop: the mail is sent to a
\* user who has a token, and UPDATE users SET signup_email_sent_at =
\* datetime('now') WHERE id = ?; an error of sendMail is rethrown and the
\* handler answers 500.
InvitesSend(s) ==
  /\ req[s].pc = "invitesSend"
  /\ LET u == req[s].givers[req[s].i]
         last == req[s].i = Len(req[s].givers)
         on == IF last THEN Respond(s, InvitesSent)
               ELSE [req EXCEPT ![s].i = @ + 1]
     IN \E sent \in BOOLEAN :
          IF ~sent
          THEN req' = Respond(s, SendFailed) /\ UNCHANGED users
          ELSE /\ users' = [users EXCEPT ![u] =
                              IF @ = NoRow THEN @
                              ELSE [@ EXCEPT !.signup_email_sent_at = Now]]
               /\ req' = on
  /\ UNCHANGED <<event, matches, calls, revealed, gen, box, limiter>>

\* lines 314-318, PATCH /events/:id/status: the event
StatusGet(s) ==
  /\ req[s].pc = "status"
  /\ IF OwnEvent(s) = NoRow THEN req' = Respond(s, EventNotFound)
     ELSE req' = [req EXCEPT ![s].pc = "statusUpdate", ![s].event = OwnEvent(s)]
  /\ UNCHANGED <<users, event, matches, calls, revealed, gen, box, limiter>>

\* the status written with the flags of the event set back
StatusUpdateReopens(s) ==
  /\ req[s].pc = "statusUpdate"
  /\ event' = IF event = NoRow THEN event
              ELSE [event EXCEPT !.status = req[s].body.status,
                                 !.matches_generated = FALSE]
  /\ req' = Respond(s, StatusUpdated(req[s].body.status))
  /\ UNCHANGED <<users, matches, calls, revealed, gen, box, limiter>>

\* lines 320-322: UPDATE events SET status = ? WHERE id = ?
StatusUpdate(s) ==
  /\ req[s].pc = "statusUpdate"
  /\ event' = IF event = NoRow THEN event
              ELSE [event EXCEPT !.status = req[s].body.status]
  /\ req' = Respond(s, StatusUpdated(req[s].body.status))
  /\ UNCHANGED <<users, matches, calls, revealed, gen, box, limiter>>

\* The operator's requests against the participants': the last slot
\* carries the requests of the operator, one at a time, and the other
\* slots those of the participants.  First the routes that write.
NextAdmin ==
  \/ \E s \in Slots \ {NumSlots} :
       \/ SignupFind(s)
       \/ SignupUpdate(s)
       \/ SignupCheckAll(s)
       \/ SignupGetEvent(s)
       \/ SignupSetAllRegistered(s)
       \/ SignupSendEmails(s)
       \/ LoginFind(s)
       \/ LoginUpdate(s)
       \/ GetUser(s)
       \/ GetEvent(s)
       \/ GetAllUsers(s)
       \/ GetMatch(s)
       \/ Generate(s)
       \/ InsertMatch(s)
       \/ SetFlag(s)
       \/ ReGetMatch(s)
       \/ SealGetRecipient(s)
       \/ SealUpdate(s)
       \/ SealReGet(s)
       \/ Finish(s)
  \/ \E s \in {NumSlots} :
       \/ AdminArrive(s, WriteRoutes)
       \/ PutGet(s)
       \/ PutUpdate(s)
       \/ DeleteGet(s)
       \/ DeleteRun(s)
       \/ InvitesGet(s)
       \/ InvitesList(s)
       \/ InvitesSend(s)
       \/ StatusGet(s)
       \/ StatusUpdate(s)
       \/ Finish(s)

SpecAdmin == Init /\ [][NextAdmin]_vars

\* Then the routes that read.
NextRead ==
  \/ \E s \in Slots \ {NumSlots} :
       \/ SignupFind(s)
       \/ SignupUpdate(s)
       \/ SignupCheckAll(s)
       \/ SignupGetEvent(s)
       \/ SignupSetAllRegistered(s)
       \/ SignupSendEmails(s)
       \/ LoginFind(s)
       \/ LoginUpdate(s)
       \/ GetUser(s)
       \/ GetEvent(s)
       \/ GetAllUsers(s)
       \/ GetMatch(s)
       \/ Generate(s)
       \/ InsertMatch(s)
       \/ SetFlag(s)
       \/ ReGetMatch(s)
       \/ SealGetRecipient(s)
       \/ SealUpdate(s)
       \/ SealReGet(s)
       \/ Finish(s)
  \/ \E s \in {NumSlots} :
       \/ AdminArrive(s, ReadRoutes)
       \/ ListEvents(s)
       \/ GetOneEvent(s)
       \/ GetParticipants(s)
       \/ Finish(s)

SpecRead == Init /\ [][NextRead]_vars

\* ------------------------------------------------ the limiter on its own
InitLimiter ==
  /\ users = [u \in Users |->
               [is_registered |-> FALSE, password_hash |-> NULL,
                signup_token |-> <<"token", u>>,
                signup_email_sent_at |-> NULL, last_login |-> NULL]]
  /\ event = NewEvent
  /\ matches = {}
  /\ req = [s \in Slots |-> Idle]
  /\ calls = 0
  /\ revealed = {}
  /\ gen = GenIdle
  /\ box = BoxIdle
  /\ limiter = LimiterIdle

NextLimiter == AuthRequest \/ WindowExpires

SpecLimiter == InitLimiter /\ [][NextLimiter]_vars

\* ------------------------------------------- the generator on its own
\* The lists of participants with distinct ids, in any order
Lists ==
  UNION { {l \in [1..n -> Users] : \A i, j \in 1..n : i # j => l[i] # l[j]}
          : n \in 0..NumUsers }

InitGen ==
  /\ users = [u \in Users |->
               [is_registered |-> FALSE, password_hash |-> NULL,
                signup_token |-> <<"token", u>>,
                signup_email_sent_at |-> NULL, last_login |-> NULL]]
  /\ event = NewEvent
  /\ matches = {}
  /\ req = [s \in Slots |-> Idle]
  /\ calls = 0
  /\ revealed = {}
  /\ \E l \in Lists : gen = [GenIdle EXCEPT !.pc = "enter", !.users = l]
  /\ box = BoxIdle
  /\ limiter = LimiterIdle

NextGen == GenEnter \/ GenShuffle \/ GenExit

SpecGen == InitGen /\ [][NextGen]_vars

\* Each turn of the loop and the statements after it are run to the end:
\* the function is synchronous.
SpecGenFair == SpecGen /\ WF_vars(NextGen)

\* ------------------------------ a database flagged without all its rows
\* The server started on a database file that was restored or edited by
\* hand: everybody has registered and the event is flagged as generated,
\* but the row of one giver is missing from matches.  The server itself
\* never writes such a state (C1); the handler reads it like any other.
DerangementsOfUsers ==
  {d \in [Users -> Users] :
     /\ \A u \in Users : d[u] # u
     /\ \A u, v \in Users : u # v => d[u] # d[v]}

InitDamaged ==
  /\ users = [u \in Users |->
               [is_registered |-> TRUE, password_hash |-> bcryptHash(1),
                signup_token |-> NULL,
                signup_email_sent_at |-> NULL, last_login |-> NULL]]
  /\ event = [NewEvent EXCEPT !.all_registered = TRUE,
                              !.matches_generated = TRUE]
  /\ \E d \in DerangementsOfUsers, lost \in Users :
       matches = { [id |-> u, event_id |-> 1, giver_id |-> u,
                    recipient_id |-> d[u], call |-> 1,
                    encrypted_data |-> PENDING, iv |-> PENDING,
                    auth_tag |-> PENDING] : u \in Users \ {lost} }
  /\ req = [s \in Slots |-> Idle]
  /\ calls = 0
  /\ revealed = {}
  /\ gen = GenIdle
  /\ box = BoxIdle
  /\ limiter = LimiterIdle

SpecDamaged == (Init \/ InitDamaged) /\ [][Next]_vars

\* --------------------------------------------- the cipher on its own
\* The strings of at most MaxPlain code units
Plaintexts == UNION {[1..n -> CodeUnits] : n \in 0..MaxPlain}

InitCipher ==
  /\ users = [u \in Users |->
               [is_registered |-> FALSE, password_hash |-> NULL,
                signup_token |-> <<"token", u>>,
                signup_email_sent_at |-> NULL, last_login |-> NULL]]
  /\ event = NewEvent
  /\ matches = {}
  /\ req = [s \in Slots |-> Idle]
  /\ calls = 0
  /\ revealed = {}
  /\ gen = GenIdle
  /\ \E data \in Plaintexts, password \in Passwords, u \in Users :
       box = [BoxIdle EXCEPT !.pc = "encrypt", !.data = data,
                             !.password = password, !.email = Email(u)]
  /\ limiter = LimiterIdle

NextCipher == Encrypt \/ Decrypt

SpecCipher == InitCipher /\ [][NextCipher]_vars

\* ----------------------------------------------- the signups on their own
\* The event has just been created: none of its participants has signed up.
InitCreated ==
  /\ users = [u \in Users |->
               [is_registered |-> FALSE, password_hash |-> NULL,
                signup_token |-> <<"token", u>>,
                signup_email_sent_at |-> NULL, last_login |-> NULL]]
  /\ event = NewEvent
  /\ matches = {}
  /\ req = [s \in Slots |-> Idle]
  /\ calls = 0
  /\ revealed = {}
  /\ gen = GenIdle
  /\ box = BoxIdle
  /\ limiter = LimiterIdle

NextSignup ==
  \E s \in Slots :
    \/ SignupFind(s)
    \/ SignupUpdate(s)
    \/ SignupCheckAll(s)
    \/ SignupGetEvent(s)
    \/ SignupSetAllRegistered(s)
    \/ SignupSendEmails(s)
    \/ Finish(s)

SpecSignup == InitCreated /\ [][NextSignup]_vars

\* ------------------------------------------ utils/crypto.js, generation
\* checkAndGenerateMatches(db, eventId, usersWithPasswords) is written for
\* a synchronous database handle (prepare().get(), prepare().all(),
\* db.transaction): a call runs to its end before any other request is
\* served, and the function passed to db.transaction is run between BEGIN
\* and COMMIT, with ROLLBACK when it throws.

\* The arrays a caller passes: users of distinct ids in any order, each
\* with a password, at most one of them without.
UsersWithPasswords ==
  LET lists == {l \in UNION {[1..n -> Users] : n \in 0..NumUsers} :
                  \A i, j \in DOMAIN l : i # j => l[i] # l[j]}
  IN {[i \in DOMAIN l |->
         [id |-> l[i], password |-> IF l[i] = without THEN 0 ELSE 1]] :
        l \in lists, without \in {0} \cup Users}

NotAnObject ==
  Throws("Cannot read properties of undefined (reading 'matches_generated')")
PasswordRequired(giver) ==
  Throws(<<"Password required for user", Email(giver), "to encrypt match">>)
DiskFull == "SQLITE_FULL: database or disk is full"

\* lines 211-222: the two checks, each returning false
CheckAndGenerateMatches(s) ==
  /\ \A t \in Slots : Free(t)
  /\ \E usersWithPasswords \in UsersWithPasswords :
       LET call == [Idle EXCEPT !.kind = "generation", !.event = event,
                      !.body = [usersWithPasswords |-> usersWithPasswords],
                      !.givers = [i \in DOMAIN usersWithPasswords |->
                                    usersWithPasswords[i].id]]
       IN req' = [req EXCEPT ![s] =
            IF event = NoRow
            THEN [call EXCEPT !.pc = "done", !.resp = NotAnObject]
            ELSE IF event.matches_generated
            THEN [call EXCEPT !.pc = "done", !.resp = Returns(FALSE)]
            ELSE IF ~(\A u \in Users : users[u] # NoRow => users[u].is_registered)
            THEN [call EXCEPT !.pc = "done", !.resp = Returns(FALSE)]
            ELSE [call EXCEPT !.pc = "generateMatches"]]
  /\ UNCHANGED <<users, event, matches, calls, revealed, gen, box, limiter>>

\* lines 110-167, called at line 225: the length check and the shuffle
\* loop, then the password of each giver in turn.  The rows are encrypted
\* where they are inserted.
GenerateMatches(s) ==
  /\ req[s].pc = "generateMatches"
  /\ \E o \in generateRandomDerangement(req[s].givers) :
       LET list == req[s].body.usersWithPasswords
           without == {i \in DOMAIN list : list[i].password \notin Passwords}
       IN req' = [req EXCEPT ![s] =
            IF "threw" \in DOMAIN o
            THEN [@ EXCEPT !.pc = "done", !.resp = o]
            ELSE IF without # {}
            THEN [@ EXCEPT !.pc = "done",
                    !.resp = PasswordRequired(
                       list[CHOOSE i \in without : \A j \in without : i <= j].id)]
            ELSE [@ EXCEPT !.pc = "transaction", !.recipients = o.returned,
                    !.i = 1, !.call = NextMatchId]]
  /\ UNCHANGED <<users, event, matches, calls, revealed, gen, box, limiter>>

\* the loop run outside a transaction: the rows inserted stay
NoRollback(s, error) ==
  /\ UNCHANGED matches
  /\ req' = [req EXCEPT ![s].pc = "done", ![s].error = error,
                        ![s].resp = Throws(error)]

\* ROLLBACK: the rows inserted since BEGIN, those from id req[s].call on,
\* are gone and the error is thrown to the caller
Rollback(s, error) ==
  /\ matches' = {m \in matches : m.id < req[s].call}
  /\ req' = [req EXCEPT ![s].pc = "done", ![s].error = error,
                        ![s].resp = Throws(error)]

\* lines 187-196, one turn of the loop inside the transaction
TransactionInsert(s) ==
  /\ req[s].pc = "transaction"
  /\ LET giver == req[s].givers[req[s].i]
         recipient == req[s].recipients[req[s].i]
         encrypted == encryptMatch(matchData(recipient),
                         req[s].body.usersWithPasswords[req[s].i].password,
                         Email(giver), randomBytes(PENDING))
         row == [id |-> NextMatchId, event_id |-> 1, giver_id |-> giver,
                 recipient_id |-> recipient, call |-> req[s].call,
                 encrypted_data |-> encrypted.encrypted,
                 iv |-> encrypted.iv, auth_tag |-> encrypted.authTag]
     IN IF UniqueViolation(giver) THEN Rollback(s, ConstraintFailed)
        ELSE IF ForeignKeyViolation(giver, recipient)
        THEN Rollback(s, ForeignKeyFailed)
        ELSE \/ /\ matches' = matches \cup {row}
                /\ req' = [req EXCEPT ![s].i = @ + 1, ![s].wrote = TRUE,
                              ![s].pc = IF req[s].i = Len(req[s].givers)
                                        THEN "commit" ELSE "transaction"]
             \/ Rollback(s, DiskFull)
  /\ UNCHANGED <<users, event, calls, revealed, gen, box, limiter>>

\* lines 197-200 and 230: updateEvent.run and COMMIT, then return true
TransactionCommit(s) ==
  /\ req[s].pc = "commit"
  /\ \/ /\ event' = [event EXCEPT !.matches_generated = TRUE,
                                   !.all_registered = TRUE]
        /\ req' = [req EXCEPT ![s].pc = "done", ![s].resp = Returns(TRUE)]
        /\ UNCHANGED matches
     \/ /\ Rollback(s, DiskFull)
        /\ UNCHANGED event
  /\ UNCHANGED <<users, calls, revealed, gen, box, limiter>>

\* An event with at least two participants, any of them signed up, and no
\* matches yet; or no event at all.
InitGeneration ==
  /\ \/ /\ event = NewEvent
        /\ \E present \in SUBSET Users :
             /\ Cardinality(present) >= 2
             /\ \E registered \in SUBSET present :
                  users = [u \in Users |->
                    IF u \notin present THEN NoRow
                    ELSE IF u \in registered
                    THEN [is_registered |-> TRUE, password_hash |-> bcryptHash(1),
                          signup_token |-> NULL,
                          signup_email_sent_at |-> NULL, last_login |-> NULL]
                    ELSE [is_registered |-> FALSE, password_hash |-> NULL,
                          signup_token |-> <<"token", u>>,
                          signup_email_sent_at |-> NULL, last_login |-> NULL]]
     \/ /\ event = NoRow
        /\ users = [u \in Users |-> NoRow]
  /\ matches = {}
  /\ req = [s \in Slots |-> Idle]
  /\ calls = 0
  /\ revealed = {}
  /\ gen = GenIdle
  /\ box = BoxIdle
  /\ limiter = LimiterIdle

NextGeneration ==
  \E s \in Slots :
    \/ CheckAndGenerateMatches(s)
    \/ GenerateMatches(s)
    \/ TransactionInsert(s)
    \/ TransactionCommit(s)
    \/ Finish(s)

SpecGeneration == InitGeneration /\ [][NextGeneration]_vars

\* --------------------------------------------- POST /api/admin/events
\* The participants of a body: the k-th is a new person, or has the email
\* of one before it in the list.
ParticipantLists ==
  {[k \in DOMAIN p |-> [email |-> Email(p[k]), name |-> Name(p[k])]] :
     p \in {q \in UNION {[1..n -> Users] : n \in 0..NumUsers} :
              \A k \in DOMAIN q : q[k] <= k}}

\* The bodies of POST /events: the columns of NewEvent, with or without a
\* name, a list of participants and sendEmails
CreateBodies ==
  {[name |-> name, maxSpend |-> NewEvent.max_spend,
    bonusItem |-> NewEvent.bonus_item, theme |-> NewEvent.theme,
    matchDeadline |-> NewEvent.match_deadline,
    giftDeadline |-> NewEvent.gift_deadline,
    participants |-> participants, sendEmails |-> sendEmails] :
     name \in {NewEvent.name, ""}, participants \in ParticipantLists,
     sendEmails \in BOOLEAN}

Insufficient ==
  Err(400, "Missing required fields or insufficient participants")
EventCreated ==
  [status |-> 200, message |-> "Event created successfully", eventId |-> 1]
EmailTaken ==
  "SQLITE_CONSTRAINT: UNIQUE constraint failed: users.event_id, users.email"

\* lines 137-143: verifyToken, verifyAdmin and the validation of the body.
\* The model holds one event, so a request arrives while there is none.
CreateArrive(s) ==
  /\ Free(s)
  /\ event = NoRow
  /\ \E t \in Tokens, body \in CreateBodies :
       LET r == [Idle EXCEPT !.kind = "create", !.u = t.userId,
                             !.token = t.issued, !.body = body] IN
       req' = [req EXCEPT ![s] =
         IF verifyAdmin(t) = NoRow
         THEN [r EXCEPT !.pc = "done", !.resp = AdminRequired]
         ELSE IF body.name = "" \/ Len(body.participants) < 2
         THEN [r EXCEPT !.pc = "done", !.resp = Insufficient]
         ELSE [r EXCEPT !.pc = "createEvent"]]
  /\ UNCHANGED <<users, event, matches, calls, revealed, gen, box, limiter>>

\* lines 147-152: INSERT INTO events
CreateEvent(s) ==
  /\ req[s].pc = "createEvent"
  /\ event' = [NewEvent EXCEPT !.admin_id = req[s].u,
                               !.name = req[s].body.name,
                               !.max_spend = req[s].body.maxSpend,
                               !.bonus_item = OrNull(req[s].body.bonusItem),
                               !.theme = OrNull(req[s].body.theme),
                               !.match_deadline = req[s].body.matchDeadline,
                               !.gift_deadline = req[s].body.giftDeadline]
  /\ req' = [req EXCEPT ![s].pc = "createUser", ![s].i = 1]
  /\ UNCHANGED <<users, matches, calls, revealed, gen, box, limiter>>

\* id INTEGER PRIMARY KEY AUTOINCREMENT of table users
NextUserId ==
  IF Participants = {} THEN 1
  ELSE 1 + CHOOSE n \in Participants : \A u \in Participants : u <= n

\* UNIQUE(event_id, email) of table users
EmailViolation(email) == \E u \in Participants : Email(u) = email

\* lines 155-170, one turn of the loop: INSERT INTO users (event_id, email,
\* name, signup_token, token_expires), each statement committed as it
\* runs.  A constraint error leaves the loop through the catch of 171.
CreateUser(s) ==
  /\ req[s].pc = "createUser"
  /\ LET participant == req[s].body.participants[req[s].i]
         last == req[s].i = Len(req[s].body.participants)
     IN IF event = NoRow
        THEN /\ req' = [Respond(s, InternalError)
                         EXCEPT ![s].error = ForeignKeyFailed]
             /\ UNCHANGED users
        ELSE IF EmailViolation(participant.email)
        THEN /\ req' = [Respond(s, InternalError)
                         EXCEPT ![s].error = EmailTaken]
             /\ UNCHANGED users
        ELSE /\ users' = [users EXCEPT ![NextUserId] =
                            [is_registered |-> FALSE, password_hash |-> NULL,
                             signup_token |-> <<"token", NextUserId>>,
                             signup_email_sent_at |-> NULL,
                             last_login |-> NULL]]
             /\ req' = IF ~last THEN [req EXCEPT ![s].i = @ + 1]
                       ELSE IF req[s].body.sendEmails
                       THEN [req EXCEPT ![s].pc = "createSendList"]
                       ELSE Respond(s, EventCreated)
  /\ UNCHANGED <<event, matches, calls, revealed, gen, box, limiter>>

\* line 167 and email.js 153, sendAllSignupEmails: SELECT * FROM users
\* WHERE event_id = ? AND is_registered = 0
CreateSendList(s) ==
  /\ req[s].pc = "createSendList"
  /\ LET list == OrderById({u \in Participants : ~users[u].is_registered}) IN
     IF list = <<>> THEN req' = Respond(s, EventCreated)
     ELSE req' = [req EXCEPT ![s].pc = "createSend", ![s].givers = list,
                             ![s].i = 1]
  /\ UNCHANGED <<users, event, matches, calls, revealed, gen, box, limiter>>

\* email.js 155-159 and 37-94, one turn of the loop, then line 170; an
\* error of sendMail is rethrown into the catch of line 171.
CreateSend(s) ==
  /\ req[s].pc = "createSend"
  /\ LET u == req[s].givers[req[s].i]
         last == req[s].i = Len(req[s].givers)
         on == IF last THEN Respond(s, EventCreated)
               ELSE [req EXCEPT ![s].i = @ + 1]
     IN \E sent \in BOOLEAN :
          IF ~sent
          THEN req' = Respond(s, InternalError) /\ UNCHANGED users
          ELSE /\ users' = [users EXCEPT ![u] =
                              IF @ = NoRow THEN @
                              ELSE [@ EXCEPT !.signup_email_sent_at = Now]]
               /\ req' = on
  /\ UNCHANGED <<event, matches, calls, revealed, gen, box, limiter>>

\* initDatabase has run: there is no event yet
InitEmpty ==
  /\ users = [u \in Users |-> NoRow]
  /\ event = NoRow
  /\ matches = {}
  /\ req = [s \in Slots |-> Idle]
  /\ calls = 0
  /\ revealed = {}
  /\ gen = GenIdle
  /\ box = BoxIdle
  /\ limiter = LimiterIdle

\* The operator creates the event in slot NumSlots; the people it names
\* sign up and ask for their match in the others.
NextCreate ==
  \/ \E s \in Slots \ {NumSlots} :
       \/ SignupFind(s)
       \/ SignupUpdate(s)
       \/ SignupCheckAll(s)
       \/ SignupGetEvent(s)
       \/ SignupSetAllRegistered(s)
       \/ SignupSendEmails(s)
       \/ GetUser(s)
       \/ GetEvent(s)
       \/ GetAllUsers(s)
       \/ GetMatch(s)
       \/ Generate(s)
       \/ InsertMatch(s)
       \/ SetFlag(s)
       \/ ReGetMatch(s)
       \/ SealGetRecipient(s)
       \/ SealUpdate(s)
       \/ SealReGet(s)
  \/ CreateArrive(NumSlots)
  \/ CreateEvent(NumSlots)
  \/ CreateUser(NumSlots)
  \/ CreateSendList(NumSlots)
  \/ CreateSend(NumSlots)
  \/ \E s \in Slots : Finish(s)

SpecCreate == InitEmpty /\ [][NextCreate]_vars

\* ------------------------------- POST /api/admin/users/:id/resend-invite
UserNotFound == Err(404, "User not found")
AccessDenied == Err(403, "Access denied")
AlreadyRegistered == Err(400, "User already registered")
NoSignupToken == Err(400, "No signup token available")
ResendFailed == Err(500, "Failed to resend invite")
InviteResent == [status |-> 200, message |-> "Invite email resent successfully"]

\* lines 264-266: verifyToken, verifyAdmin, and the id of the path
ResendArrive(s) ==
  /\ Free(s)
  /\ \E t \in Tokens, userId \in Users :
       LET r == [Idle EXCEPT !.kind = "resend", !.u = t.userId,
                             !.token = t.issued, !.body = [id |-> userId]] IN
       req' = [req EXCEPT ![s] =
         IF verifyAdmin(t) = NoRow
         THEN [r EXCEPT !.pc = "done", !.resp = AdminRequired]
         ELSE [r EXCEPT !.pc = "resend"]]
  /\ UNCHANGED <<users, event, matches, calls, revealed, gen, box, limiter>>

\* lines 269-290: SELECT u.*, e.admin_id FROM users u JOIN events e ON
\* u.event_id = e.id WHERE u.id = ?, and the four checks
ResendGet(s) ==
  /\ req[s].pc = "resend"
  /\ LET user == users[req[s].body.id] IN
     req' = IF user = NoRow \/ event = NoRow THEN Respond(s, UserNotFound)
            ELSE IF event.admin_id # req[s].u THEN Respond(s, AccessDenied)
            ELSE IF user.is_registered THEN Respond(s, AlreadyRegistered)
            ELSE IF user.signup_token = NULL THEN Respond(s, NoSignupToken)
            ELSE [req EXCEPT ![s].pc = "resendSend",
                             ![s].event = [admin_id |-> event.admin_id]]
  /\ UNCHANGED <<users, event, matches, calls, revealed, gen, box, limiter>>

\* lines 292-297 and email.js 37-94: the mail, then UPDATE users SET
\* signup_email_sent_at = datetime('now') WHERE id = ?
ResendSend(s) ==
  /\ req[s].pc = "resendSend"
  /\ \E sent \in BOOLEAN :
       IF ~sent
       THEN req' = Respond(s, ResendFailed) /\ UNCHANGED users
       ELSE /\ users' = [users EXCEPT ![req[s].body.id] =
                           IF @ = NoRow THEN @
                           ELSE [@ EXCEPT !.signup_email_sent_at = Now]]
            /\ req' = Respond(s, InviteResent)
  /\ UNCHANGED <<event, matches, calls, revealed, gen, box, limiter>>

\* Every route of the operators in slot NumSlots, against the signups of
\* the participants in the others.
NextOwner ==
  \/ \E s \in Slots \ {NumSlots} :
       \/ SignupFind(s)
       \/ SignupUpdate(s)
       \/ SignupCheckAll(s)
       \/ SignupGetEvent(s)
       \/ SignupSetAllRegistered(s)
       \/ SignupSendEmails(s)
  \/ AdminArrive(NumSlots, AdminRoutes)
  \/ ListEvents(NumSlots)
  \/ GetOneEvent(NumSlots)
  \/ GetParticipants(NumSlots)
  \/ PutGet(NumSlots)
  \/ PutUpdate(NumSlots)
  \/ DeleteGet(NumSlots)
  \/ DeleteRun(NumSlots)
  \/ InvitesGet(NumSlots)
  \/ InvitesList(NumSlots)
  \/ InvitesSend(NumSlots)
  \/ StatusGet(NumSlots)
  \/ StatusUpdate(NumSlots)
  \/ ResendArrive(NumSlots)
  \/ ResendGet(NumSlots)
  \/ ResendSend(NumSlots)
  \/ \E s \in Slots : Finish(s)

SpecOwner == Init /\ [][NextOwner]_vars

\* ================================================================ claims
Generated == event.matches_generated
Sealed(m) == m.encrypted_data # PENDING
RowOf(u) == {m \in matches : m.giver_id = u}
Stepped(s) == req'[s] # req[s]
RevealDone(s) == req[s].kind = "reveal" /\ req[s].pc = "done"
Revealed(s) == RevealDone(s) /\ req[s].resp.status = 200
Identity(u) == [name |-> Name(u), email |-> Email(u)]

RowIdent(ms) ==
  {<<m.id, m.event_id, m.giver_id, m.recipient_id, m.call>> : m \in ms}

\* C2: for any number of generation triggers, sequential or interleaved at
\* their awaits, all match rows come from one generateRandomDerangement
\* call; UPDATE events SET matches_generated = 1 runs only while the flag is
\* unset and the flag is never cleared, so it goes from unset to set once;
\* and a /my-match request that finds the flag set inserts, removes and
\* re-targets no row and leaves the flag as it is.
C2_GenerationExactlyOnce ==
  /\ [](\A m, n \in matches : m.call = n.call)
  /\ [][ /\ \A s \in Slots :
              (req[s].pc = "setFlag" /\ Stepped(s)) => ~Generated
         /\ Generated => event'.matches_generated
         /\ \A s \in Slots :
              ( /\ Stepped(s)
                /\ Generated
                /\ \/ req[s].pc = "idle" /\ req'[s].kind = "reveal"
                   \/ req[s].kind = "reveal" /\ req[s].pc = "getEvent"
                   \/ req[s].kind = "reveal" /\ req[s].evGen )
              => /\ RowIdent(matches') = RowIdent(matches)
                 /\ event'.matches_generated = event.matches_generated
       ]_vars

\* C2 witness: two requests are inside the insert loop at once, one of them
\* having inserted a row already.
C2_Witness ==
  \E s, t \in Slots :
    /\ s # t
    /\ req[s].pc = "insert" /\ req[s].i > 1
    /\ req[t].pc = "insert" /\ req[t].i = 1

\* C3: an event has either no match row and the flag unset, or its
\* NumUsers rows and the flag set; no state in between is ever visible.
C3_RowsAndFlagTogether ==
  \/ matches = {} /\ ~Generated
  \/ Cardinality(matches) = NumUsers /\ Generated

IsPermutationOf(recipients, list) ==
  /\ Len(recipients) = Len(list)
  /\ \A i \in 1..Len(list) :
       Cardinality({j \in 1..Len(list) : recipients[j] = list[i]}) = 1

IsDerangementOf(recipients, list) ==
  /\ IsPermutationOf(recipients, list)
  /\ \A i \in 1..Len(list) : recipients[i] # list[i]

\* C4: for every list of n >= 2 participants with distinct ids, whatever
\* the generator returns is a permutation of the list with no position i
\* holding the participant users[i]; this of the loop run statement by
\* statement and of the outcomes the request handler draws from.
C4_ReturnsDerangement ==
  Len(gen.users) >= 2 =>
    /\ gen.pc = "returned" => IsDerangementOf(gen.recipients, gen.users)
    /\ \A o \in generateRandomDerangement(gen.users) :
         "returned" \in DOMAIN o => IsDerangementOf(o.returned, gen.users)

\* C4 witness: a list of NumUsers participants, returned after a reshuffle
C4_Witness ==
  /\ gen.pc = "returned"
  /\ Len(gen.users) = NumUsers
  /\ gen.attempts > 1

\* What whoever reads the database file sees of the matches table: every
\* column, the ciphertext columns as opaque bytes that are either the
\* PENDING sentinel or not.
OperatorView(ms) ==
  {[id |-> m.id, event_id |-> m.event_id, giver_id |-> m.giver_id,
    recipient_id |-> m.recipient_id, sealed |-> Sealed(m)] : m \in ms}

Derangements ==
  {d \in [Users -> Users] :
     /\ \A u \in Users : d[u] # u
     /\ \A u, v \in Users : u # v => d[u] # d[v]}

\* The table as it would be, had generation drawn the derangement d
Retarget(ms, d) == {[m EXCEPT !.recipient_id = d[m.giver_id]] : m \in ms}

\* C5: the state the operator can read does not determine the assignments:
\* whichever derangement was drawn, the operator's view of the matches
\* table is the same.
C5_OperatorBlind ==
  \A d \in Derangements : OperatorView(Retarget(matches, d)) = OperatorView(matches)

\* C6: /my-match answers with a recipient only to a request whose password
\* bcrypt.compare accepted against the hash of the user its token names,
\* and the match row the request holds, answered or not, has that user as
\* giver_id.
C6_RevealNeedsPassword ==
  \A s \in Slots :
    /\ Revealed(s) => req[s].valid /\ req[s].match # NoRow
    /\ (req[s].kind = "reveal" /\ req[s].match # NoRow) =>
         req[s].valid /\ req[s].match.giver_id = req[s].u

\* C6 witness: a reveal was answered after sealing its row, while a request
\* with another password for the same user was turned away.
C6_Witness ==
  \E s, t \in Slots :
    /\ Revealed(s) /\ req[s].wrote
    /\ RevealDone(t) /\ req[t].u = req[s].u /\ req[t].resp = InvalidPassword

\* C7: a successful reveal by giver G answers with the name and email of
\* the participant whose id is the recipient_id of G's match row, and that
\* participant is never G.
C7_RevealIsRecipient ==
  \A s \in Slots :
    Revealed(s) =>
      \E m \in RowOf(req[s].u) :
        /\ req[s].resp.match = Identity(m.recipient_id)
        /\ m.recipient_id # req[s].u
        /\ req[s].resp.match # Identity(req[s].u)

\* C7 witness: a giver whose row was inserted as PENDING by somebody else's
\* request has revealed.
C7_Witness ==
  \E s \in Slots :
    Revealed(s) /\ req[s].found = "pending" /\ req[s].wrote

\* C8: when reveals by the same giver overlap, at most one of them applies
\* its seal: an UPDATE of a row that already holds ciphertext changes
\* nothing, so the loser reads the winner's ciphertext.
C8_SealAppliedOnce ==
  [][ \A s \in Slots :
        (req[s].pc = "sealUpdate" /\ Stepped(s)) =>
          \A m \in matches :
            (m.id = req[s].match.id /\ Sealed(m)) => m \in matches'
    ]_vars

\* C9: once a row's encrypted_data holds ciphertext, its encrypted_data, iv
\* and auth_tag keep their values in every later state, and the row never
\* goes back to the sentinel.
C9_SealedIsFinal ==
  [][ \A m \in matches :
        Sealed(m) =>
          \E n \in matches' :
            /\ n.id = m.id
            /\ n.encrypted_data # PENDING
            /\ <<n.encrypted_data, n.iv, n.auth_tag>> =
                 <<m.encrypted_data, m.iv, m.auth_tag>>
    ]_vars

\* The reveals answered so far, as <<giver, recipient identity>>
Answers ==
  revealed \cup {<<req[s].u, req[s].resp.match>> : s \in {x \in Slots : Revealed(x)}}

SameAnswers == \A p, q \in Answers : p[1] = q[1] => p[2] = q[2]

SealedRevealWritesNothing ==
  \A s \in Slots : (Revealed(s) /\ req[s].found = "sealed") => ~req[s].wrote

C11_WrongPasswordRejected ==
  /\ [][ \A s \in Slots :
           ( /\ req[s].pc = "idle" /\ req'[s].kind = "reveal"
             /\ users[req'[s].u].password_hash # NULL
             /\ ~bcryptCompare(req'[s].pw, users[req'[s].u].password_hash) )
           => /\ req'[s].pc = "done"
              /\ req'[s].resp = InvalidPassword
              /\ <<users, event, matches>>' = <<users, event, matches>>
       ]_vars
  /\ [](\A s \in Slots :
          (RevealDone(s) /\ req[s].resp = InvalidPassword) =>
            ~req[s].valid /\ ~req[s].wrote /\ req[s].match = NoRow)
  /\ [][ \A s \in Slots :
           (RevealDone(s) /\ req[s].resp = InvalidPassword /\ Stepped(s)) =>
             /\ req'[s] = Idle
             /\ <<users, event, matches, calls, revealed>>' =
                  <<users, event, matches, calls, revealed>>
       ]_vars

\* C11 witness: a wrong password was turned away while a participant had
\* not registered yet.
C11_Witness ==
  \E s \in Slots :
    /\ RevealDone(s) /\ req[s].resp = InvalidPassword
    /\ \E u \in Users : ~users[u].is_registered

SomeUnregistered == \E u \in Users : ~users[u].is_registered

\* C12: a reveal that reaches the registration check while a participant
\* of the event is unregistered is answered 400 not ready and changes
\* neither matches nor the event; as long as a participant is unregistered
\* there is no match row and matches_generated is unset.
C12_NotReadyCreatesNothing ==
  /\ [][ \A s \in Slots :
           (req[s].pc = "getAllUsers" /\ Stepped(s) /\ SomeUnregistered) =>
             /\ req'[s].pc = "done"
             /\ req'[s].resp = NotReady
             /\ <<event, matches>>' = <<event, matches>>
       ]_vars
  /\ [](SomeUnregistered => matches = {} /\ ~Generated)
  /\ [](\A s \in Slots :
          (RevealDone(s) /\ req[s].resp = NotReady) =>
            ~req[s].wrote /\ req[s].match = NoRow)

\* C12 witness: a reveal with the right password was answered not ready.
C12_Witness ==
  \E s \in Slots :
    RevealDone(s) /\ req[s].resp = NotReady /\ req[s].valid /\ SomeUnregistered

Unsealed(m) ==
  m.encrypted_data = PENDING /\ m.iv = PENDING /\ m.auth_tag = PENDING

\* C13: every match row has its three ciphertext columns either all equal
\* to the sentinel or none equal to it; and a seal whose UPDATE fails
\* leaves the matches table as it was.
C13_RowsSealedWhole ==
  /\ [](\A m \in matches :
          \/ Unsealed(m)
          \/ m.encrypted_data # PENDING /\ m.iv # PENDING /\ m.auth_tag # PENDING)
  /\ [][ \A s \in Slots :
           (req[s].pc = "sealUpdate" /\ Stepped(s) /\ req'[s].pc = "done") =>
             matches' = matches
       ]_vars

\* C13 witness: a seal has failed and the giver's row is still unsealed.
C13_Witness ==
  \E s \in Slots :
    /\ RevealDone(s) /\ req[s].found = "pending" /\ req[s].resp = InternalError
    /\ \E m \in RowOf(req[s].u) : Unsealed(m)

\* C14: every kind of failure of a reveal reaches the caller as a response
\* of its own: a request that failed in the generation block got a
\* response that is none of the responses to a wrong password, to an
\* unregistered participant, to a failed decryption or to an internal
\* error, nor the response that another error of the generation block
\* gets.
C14_FailuresDistinct ==
  \A s \in Slots :
    (RevealDone(s) /\ req[s].error # "") =>
      /\ req[s].resp \notin {InvalidPassword, NotReady, DecryptFailed, InternalError}
      /\ \A e \in {NeedTwo.threw, Exhausted.threw, ConstraintFailed} \ {req[s].error} :
           GenerationFailure(e) # req[s].resp

\* C15: the match-ready emails of an event are sent only in states where
\* matches_generated is set and every participant has a match row.
C15_NotifiedAfterGeneration ==
  [][ \A s \in Slots :
        ( /\ req[s].pc = "signupSendEmails" /\ Stepped(s)
          /\ req'[s].resp = SignupOk(req[s].u) )
        => Generated /\ \A u \in Users : RowOf(u) # {}
    ]_vars

\* A string with no lone surrogate
WellFormed(str) == \A i \in DOMAIN str : str[i] # Char("D800")

SameKeyOpened ==
  /\ box.pc = "done"
  /\ box.openPassword = box.password
  /\ box.openEmail = box.email

C19_GeneratedWithoutRowFails ==
  /\ [][ \A s \in Slots :
           ( /\ req[s].pc = "getMatch" /\ Stepped(s)
             /\ req[s].evGen /\ RowOf(req[s].u) = {} )
           => /\ req'[s].pc = "done"
              /\ req'[s].resp = InternalError
              /\ <<matches, event, calls>>' = <<matches, event, calls>>
       ]_vars
  /\ [](\A s \in Slots :
          req[s].evGen =>
            req[s].pc \notin {"generate", "insert", "setFlag", "reGetMatch"})

\* C19 witness: the giver whose row is missing was answered, the other
\* rows and the flag being in place.
C19_Witness ==
  \E s \in Slots :
    /\ RevealDone(s) /\ req[s].evGen /\ req[s].resp = InternalError
    /\ RowOf(req[s].u) = {}
    /\ Generated /\ Cardinality(matches) = NumUsers - 1

GenDone == gen.pc \in {"returned", "threw"}

\* C20: the generator terminates; it never makes more than maxAttempts
\* shuffles; from a shuffle with no fixed point its next step is to return
\* that shuffle; what it returns has no fixed point; for a list of two or
\* more it throws only after maxAttempts shuffles, the last one with a
\* fixed point, and then it does throw; and for two participants what it
\* returns, and what the handler can draw, is the swap.
C20_GeneratorTerminates ==
  /\ <>GenDone
  /\ [](gen.attempts <= maxAttempts)
  /\ [][ (gen.pc = "loop" /\ gen.isValid) =>
           gen' = [gen EXCEPT !.pc = "returned"] ]_vars
  /\ [][ (gen.pc = "loop" /\ ~gen.isValid /\ gen.attempts = maxAttempts) =>
           gen' = [gen EXCEPT !.pc = "threw"] ]_vars
  /\ [](gen.pc = "returned" =>
          /\ gen.attempts \in 1..maxAttempts
          /\ isValid(gen.users, gen.recipients))
  /\ []((gen.pc = "threw" /\ Len(gen.users) >= 2) =>
          /\ gen.attempts = maxAttempts
          /\ ~isValid(gen.users, gen.recipients))
  /\ [](Len(gen.users) = 2 =>
          /\ gen.pc = "returned" =>
               gen.recipients = <<gen.users[2], gen.users[1]>>
          /\ \A o \in generateRandomDerangement(gen.users) :
               o = Exhausted \/ o = Returns(<<gen.users[2], gen.users[1]>>))

\* C20 witness: maxAttempts shuffles of NumUsers participants all had a
\* fixed point and the generator threw.
C20_Witness ==
  /\ gen.pc = "threw"
  /\ Len(gen.users) = NumUsers
  /\ gen.attempts = maxAttempts
\* C27: once a participant's row has been sealed, every later reveal by
\* that participant that passes the password check decrypts it: no reveal
\* whose password was accepted is answered "Failed to decrypt match",
\* whatever the interleaving of signups and reveals.
C27_AcceptedPasswordDecrypts ==
  \A s \in Slots :
    (RevealDone(s) /\ req[s].valid) => req[s].resp # DecryptFailed

\* C28: a participant registers at most once: once is_registered is set,
\* no step writes that participant's password_hash again, also when two
\* signups with the same token overlap.
C28_RegistersOnce ==
  [][ \A u \in Users :
        users[u].is_registered =>
          users'[u].password_hash = users[u].password_hash ]_vars

\* C29: with everybody registered, no reveal that passed the password
\* check ends in an error because another request generated the matches
\* first: none is answered after its INSERT broke UNIQUE(event_id,
\* giver_id).
C29_NoRevealLosesTheRace ==
  \A s \in Slots :
    (RevealDone(s) /\ req[s].valid) => req[s].error # ConstraintFailed

\* C30: the step that sends the match-ready notifications never makes the
\* signup fail: whether or not the mail is sent, the participant stays
\* registered and the response is the successful one.
C30_NotificationFailureIgnored ==
  [][ \A s \in Slots :
        (req[s].pc = "signupSendEmails" /\ Stepped(s))
        => /\ users'[req[s].u].is_registered
           /\ req'[s].resp = SignupOk(req[s].u) ]_vars
\* C21: the flag is one-way: once matches_generated is set, no step of a
\* signup, a login, a reveal, an event update, a status change or a
\* sending of invites clears it while the event exists.
C21_FlagOneWay ==
  [][ (event # NoRow /\ event.matches_generated /\ event' # NoRow)
      => event'.matches_generated ]_vars

\* C21 witness: the operator changed the status of an event it had read
\* as generated, and the event is still generated.
C21_Witness ==
  \E s \in Slots :
    /\ req[s].kind = "status" /\ req[s].pc = "done"
    /\ req[s].resp = StatusUpdated("inactive")
    /\ req[s].event.matches_generated
    /\ event # NoRow /\ event.status = "inactive" /\ event.matches_generated

\* C22: no PUT /api/admin/events/:id takes effect in a state where
\* matches_generated is set: the UPDATE of a PUT leaves a generated event
\* as it is, also when the PUT overlaps a reveal that generates.
C22_NoEditOnceGenerated ==
  [][ \A s \in Slots :
        ( /\ req[s].pc = "putUpdate" /\ Stepped(s)
          /\ event # NoRow /\ event.matches_generated )
        => event' = event ]_vars

\* C23: admin routes are served only to tokens issued by admin login: a
\* request at an admin route that got past verifyAdmin carries a token
\* signed at admin-login, whatever the id of the participant.
C23_AdminTokensOnly ==
  \A s \in Slots :
    (req[s].kind \in AdminRoutes /\ req[s].resp # AdminRequired)
    => req[s].token = "admin"

\* C24: match rows are removed only by deleting their event; after the
\* delete no user row and no match row is left; every match row refers to
\* an existing event and to existing users, also when the delete overlaps
\* a reveal that is inserting rows.
C24_RowsFollowTheirEvent ==
  /\ [][ {m.id : m \in matches} \subseteq {m.id : m \in matches'}
         \/ (event # NoRow /\ event' = NoRow) ]_vars
  /\ [](event = NoRow => matches = {} /\ \A u \in Users : users[u] = NoRow)
  /\ [](\A m \in matches :
          /\ event # NoRow
          /\ users[m.giver_id] # NoRow
          /\ users[m.recipient_id] # NoRow)

\* C24 witness: a reveal had inserted rows when the event was deleted, and
\* its next INSERT was refused.
C24_Witness ==
  \E s \in Slots :
    /\ RevealDone(s) /\ req[s].wrote /\ req[s].error = ForeignKeyFailed
    /\ event = NoRow /\ matches = {}

\* C25: every endpoint of /api/auth (admin-login, signup, login, refresh)
\* refuses a client's request once that client has made max requests to it
\* in the current window.
C25_EveryAuthEndpointLimited ==
  limiter.last.before >= max => limiter.last.refused

\* The fields of the responses of the admin routes: those of the event,
\* of the registration of its participants, and the counts
ResponseFields ==
  {"status", "message", "error", "eventStatus", "events", "event",
   "participants", "stats"}
EventFields ==
  {"id", "name", "maxSpend", "bonusItem", "theme", "matchDeadline",
   "giftDeadline", "allRegistered", "matchesGenerated", "status"}
ParticipantFields ==
  {"id", "name", "email", "isRegistered", "emailSent", "emailSentAt",
   "lastLogin", "hasToken"}
ListFields ==
  {"event", "total_participants", "registered_count", "emails_sent"}

\* C26: no response of an admin route holds a giver-recipient pairing or
\* the content of a match row: its fields are those of the event and of
\* the participants' registration, none of them of a match.
C26_AdminSeesNoPairing ==
  \A s \in Slots :
    (req[s].kind \in AdminRoutes /\ req[s].pc = "done") =>
      LET r == req[s].resp IN
      /\ DOMAIN r \subseteq ResponseFields
      /\ "event" \in DOMAIN r => DOMAIN r.event \subseteq EventFields
      /\ "participants" \in DOMAIN r =>
           \A p \in r.participants : DOMAIN p \subseteq ParticipantFields
      /\ "events" \in DOMAIN r =>
           \A x \in r.events :
             /\ DOMAIN x \subseteq ListFields
             /\ DOMAIN x.event = DOMAIN NewEvent

\* C26 witness: the operator read the event and its participants after
\* the matches were generated and a row was sealed.
C26_Witness ==
  \E s \in Slots :
    /\ req[s].kind = "event" /\ req[s].pc = "done"
    /\ req[s].resp.status = 200
    /\ req[s].resp.event.matchesGenerated
    /\ Cardinality(req[s].resp.participants) = NumUsers
    /\ Cardinality(matches) = NumUsers
    /\ \E m \in matches : Sealed(m)
\* C31: the match-ready notification is sent to the participants of an
\* event at most once: no two signups are both at the call of
\* sendAllMatchReadyEmails, also when the last two participants sign up in
\* overlapping requests.
C31_NotifiedAtMostOnce ==
  Cardinality({s \in Slots : req[s].pc = "signupSendEmails"}) <= 1
AllRegistered == \A u \in Users : users[u] # NoRow => users[u].is_registered

GenerationDone(s) == req[s].kind = "generation" /\ req[s].pc = "done"
InTransaction == \E s \in Slots : req[s].pc \in {"transaction", "commit"}

\* the rows and the two flags of a generation for the givers of the list
StoredFor(givers) ==
  /\ event # NoRow /\ event.matches_generated /\ event.all_registered
  /\ Cardinality(matches) = Len(givers)
  /\ \A i \in DOMAIN givers : \E m \in matches : m.giver_id = givers[i]

\* C35: checkAndGenerateMatches returns true exactly when it generated and
\* stored matches; with the event already generated or a participant
\* unregistered it returns false and changes nothing; when generateMatches
\* or the transaction throws nothing is stored; and outside the
\* transaction the table holds either no row and no flag, or the N rows
\* and the flags.
C35_GenerationAllOrNothing ==
  /\ [](\A s \in Slots : GenerationDone(s) =>
          LET before == req[s].event IN
          /\ req[s].resp = Returns(TRUE)
               <=> before # NoRow /\ ~before.matches_generated
                     /\ StoredFor(req[s].givers)
          /\ before # NoRow /\ (before.matches_generated \/ ~AllRegistered)
               => req[s].resp = Returns(FALSE) /\ event = before
          /\ "threw" \in DOMAIN req[s].resp
               => event = before /\ matches = {})
  /\ [](~InTransaction =>
          \/ matches = {} /\ (event # NoRow => ~event.matches_generated)
          \/ /\ matches # {} /\ event # NoRow
             /\ event.matches_generated /\ event.all_registered)
  /\ [][\A s \in Slots :
          GenerationDone(s)' /\ ~GenerationDone(s)
            /\ req'[s].resp # Returns(TRUE)
            => UNCHANGED <<users, event>>
                 /\ (req'[s].resp = Returns(FALSE) => UNCHANGED matches)]_vars

\* a call for all NumUsers participants has returned true
C35_Witness ==
  \E s \in Slots :
    /\ GenerationDone(s) /\ req[s].resp = Returns(TRUE)
    /\ Len(req[s].givers) = NumUsers /\ StoredFor(req[s].givers)
Creating == \E s \in Slots : req[s].kind = "create" /\ req[s].pc # "done"

\* C32: every event that exists has at least 2 participants once the POST
\* /api/admin/events that creates it has answered, also when that request
\* failed partway through inserting its participants; and generation is
\* never requested for an event with fewer than 2 participants.
C32_AtLeastTwoParticipants ==
  /\ event # NoRow /\ ~Creating => Cardinality(Participants) >= 2
  /\ \A s \in Slots : req[s].pc = "generate" => Len(allUsersList) >= 2
\* The routes that name an event or a participant, and the program
\* counters at which a request has passed the check of the owner
OwnerRoutes == AdminRoutes \cup {"resend"}
PastOwnerCheck ==
  {"eventParticipants", "putUpdate", "deleteRun", "invitesList",
   "invitesSend", "statusUpdate", "resendSend"}

\* C34: an admin reads, updates, deletes, changes the status of or sends
\* invites for only an event whose admin_id is their own id, and resends an
\* invite only to a participant of such an event; a request aimed at the
\* event or the participant of another admin is refused, 404 or 403, and
\* changes no table.
C34_OwnEventsOnly ==
  /\ [](\A s \in Slots :
          /\ req[s].pc \in PastOwnerCheck => req[s].event.admin_id = req[s].u
          /\ (req[s].kind = "events" /\ req[s].pc = "done"
                /\ req[s].resp # AdminRequired)
               => \A x \in req[s].resp.events : x.event.admin_id = req[s].u)
  /\ [][\A s \in Slots :
          ( /\ req[s].kind \in OwnerRoutes /\ req[s].pc = req[s].kind
            /\ Stepped(s)
            /\ event # NoRow /\ event.admin_id # req[s].u )
          => /\ UNCHANGED <<users, event, matches>>
             /\ req'[s].pc = "done"
             /\ IF req[s].kind = "events" THEN req'[s].resp.events = {}
                ELSE IF req[s].kind = "resend"
                THEN req'[s].resp \in {UserNotFound, AccessDenied}
                ELSE req'[s].resp = EventNotFound]_vars

\* the second admin asked to delete the event of the first and was refused
C34_Witness ==
  \E s \in Slots :
    /\ req[s].kind = "delete" /\ req[s].pc = "done"
    /\ req[s].token = "admin" /\ req[s].u # NewEvent.admin_id
    /\ req[s].resp = EventNotFound
    /\ event # NoRow /\ event.admin_id = NewEvent.admin_id
====
